---- MODULE Spec2Model ----
(***************************************************************************)
(* A model of the sw-precaching PrecacheManager and its revisioned cache   *)
(* manager: manifests are declared on a fresh worker, the install listener *)
(* reconciles them against the revision store and the blob cache, the      *)
(* activate listener removes what the manifest no longer names.            *)
(***************************************************************************)
EXTENDS Integers, Sequences, FiniteSets, TLC

None == "none"

\* The URLs a revisioned manifest may name and the revisions they may carry.
Ids == {"/a", "/b"}
\* The URLs an unrevisioned manifest may name.
UnrevUrls == {"/u"}

\* Bounds of the model.
MaxDeploys == 2
MaxDeclares == 2
MaxManifest == 2

(***************************************************************************)
(* Raw manifest entries, as JavaScript values.                             *)
(***************************************************************************)
RawString(u) == [type |-> "string", url |-> u, revision |-> None]
RawObject(u, r) == [type |-> "object", url |-> u, revision |-> r]
RawUndefined == [type |-> "undefined", url |-> None, revision |-> None]
RawNull == [type |-> "null", url |-> None, revision |-> None]
RawNumber == [type |-> "number", url |-> None, revision |-> None]

\* The entries the deployed manifests are made of.
ManifestEntries ==
  {RawObject("/a", "r1"), RawObject("/a", "r2"), RawString("/b")}

\* Every raw entry a caller may pass.
RawEntries ==
  ManifestEntries \cup
    {RawObject("/b", "r1"), RawUndefined, RawNull, RawNumber}

RECURSIVE SeqsUpTo(_, _)
SeqsUpTo(S, n) ==
  IF n = 0 THEN {<< >>}
  ELSE LET shorter == SeqsUpTo(S, n - 1)
       IN shorter \cup {Append(s, x) : s \in shorter, x \in S}

\* JavaScript's typeof: null is an object.
TypeOf(input) == IF input.type = "null" THEN "object" ELSE input.type

\* A parsed entry: its identifier (also the key of its request) and revision.
PrecacheEntry(id, rev) == [entryID |-> id, revision |-> rev]

\* new StringPrecacheEntry(url): the revision is carried by the URL itself.
StringPrecacheEntry(input) == PrecacheEntry(input.url, input.url)

\* new ObjectPrecacheEntry({url, revision}).
ObjectPrecacheEntry(input) == PrecacheEntry(input.url, input.revision)

Parsed(err, entry) == [error |-> err, entry |-> entry]

\* The null check dropped: null reaches the 'object' case and the entry
\* constructor dereferences it.
ParseEntry_NoNullCheck(input) ==
  IF input.type = "undefined"
    THEN Parsed("invalid-revisioned-entry", None)
  ELSE IF input.type = "null" THEN Parsed("TypeError", None)
  ELSE IF TypeOf(input) = "string" THEN Parsed(None, StringPrecacheEntry(input))
  ELSE IF TypeOf(input) = "object" THEN Parsed(None, ObjectPrecacheEntry(input))
  ELSE Parsed("invalid-revisioned-entry", None)

\* RevisionedCacheManager._parseEntry
ParseEntry(input) ==
  IF input.type = "undefined" \/ input.type = "null"
    THEN Parsed("invalid-revisioned-entry", None)
  ELSE IF TypeOf(input) = "string" THEN Parsed(None, StringPrecacheEntry(input))
  ELSE IF TypeOf(input) = "object" THEN Parsed(None, ObjectPrecacheEntry(input))
  ELSE Parsed("invalid-revisioned-entry", None)

\* The revision comparison left out: a duplicate is never an error.
OnDuplicateInstallEntryFound_NoCheck(newEntry, previousEntry) == None

\* RevisionedCacheManager._onDuplicateInstallEntryFound: the error thrown, if any.
OnDuplicateInstallEntryFound(newEntry, previousEntry) ==
  IF previousEntry.revision # newEntry.revision
    THEN "duplicate-entry-diff-revisions"
    ELSE None

EntriesWithID(list, id) == {k \in 1..Len(list) : list[k].entryID = id}

\* BaseCacheManager._addEntryToInstallList: append, unless the identifier is
\* already listed, and then the duplicate policy decides.
AddEntryToInstallList(list, precacheEntry) ==
  LET previous == EntriesWithID(list, precacheEntry.entryID)
  IN IF previous = {}
       THEN [error |-> None, entries |-> Append(list, precacheEntry)]
       ELSE [error |-> OnDuplicateInstallEntryFound(
                         precacheEntry, list[CHOOSE k \in previous : TRUE]),
             entries |-> list]

\* BaseCacheManager.cache: each raw entry in turn is parsed and added; the
\* first error ends the call and what was added before it stays.
RECURSIVE Cache(_, _)
Cache(list, rawEntries) ==
  IF rawEntries = << >> THEN [error |-> None, entries |-> list]
  ELSE LET parsed == ParseEntry(Head(rawEntries))
       IN IF parsed.error # None
            THEN [error |-> parsed.error, entries |-> list]
            ELSE LET added == AddEntryToInstallList(list, parsed.entry)
                 IN IF added.error # None
                      THEN [error |-> added.error, entries |-> list]
                      ELSE Cache(added.entries, Tail(rawEntries))

(***************************************************************************)
(* The two stores.  A blob cache is a set of (key, body) pairs; the body   *)
(* of a revisioned blob is the revision that was fetched, the body of an   *)
(* unrevisioned blob tells whether this worker or an earlier one wrote it. *)
(***************************************************************************)
Blob(key, body) == [key |-> key, body |-> body]

\* Cache.match: the stored body, or None.
CacheMatch(cache, key) ==
  IF \E e \in cache : e.key = key
    THEN (CHOOSE e \in cache : e.key = key).body
    ELSE None

\* Cache.put replaces what is stored under the key.
CachePut(cache, key, body) ==
  {e \in cache : e.key # key} \cup {Blob(key, body)}

\* Whether anything is stored under the key.
CacheHas(cache, key) == \E e \in cache : e.key = key

\* Cache.delete
CacheDelete(cache, key) == {e \in cache : e.key # key}

\* The check skipped: every entry is fetched again.
IsAlreadyCached_NeverCached(revisionDetails, cachedResponse, precacheEntry) ==
  FALSE

\* The cache is not consulted: a matching revision is enough.
IsAlreadyCached_RevisionOnly(revisionDetails, cachedResponse, precacheEntry) ==
  revisionDetails = precacheEntry.revision

\* The revision is not consulted: a stored response is enough.
IsAlreadyCached_CacheOnly(revisionDetails, cachedResponse, precacheEntry) ==
  cachedResponse # None

\* RevisionedCacheManager._isAlreadyCached, given what revisionDetailsModel.get
\* and openCache.match return.
IsAlreadyCached(revisionDetails, cachedResponse, precacheEntry) ==
  IF revisionDetails # precacheEntry.revision
    THEN FALSE
    ELSE cachedResponse # None

\* The put left out.
OnEntryCached_NoPut(store, precacheEntry) == store

\* The identifier stored in place of the revision.
OnEntryCached_WrongValue(store, precacheEntry) ==
  [store EXCEPT ![precacheEntry.entryID] = precacheEntry.entryID]

\* The revision stored under every identifier, not under the entry's own.
OnEntryCached_EveryKey(store, precacheEntry) ==
  [i \in DOMAIN store |-> precacheEntry.revision]

\* RevisionedCacheManager._onEntryCached: revisionDetailsModel.put(entryID, revision).
OnEntryCached(store, precacheEntry) ==
  [store EXCEPT ![precacheEntry.entryID] = precacheEntry.revision]

\* Promise.all over settled-or-pending promises.
PromiseAll(states) ==
  IF \E k \in DOMAIN states : states[k] = "rejected" THEN "rejected"
  ELSE IF \A k \in DOMAIN states : states[k] = "fulfilled" THEN "fulfilled"
  ELSE "pending"

\* The unrevisioned install step left out of the Promise.all.
InstallPromiseChain_RevisionedOnly(revisioned, unrevisioned) ==
  LET all == PromiseAll(<<revisioned>>)
  IN [result |-> all, close |-> all # "pending"]

\* The catch handler closes and does not throw again.
InstallPromiseChain_SwallowError(revisioned, unrevisioned) ==
  LET all == PromiseAll(<<revisioned, unrevisioned>>)
  IN [result |-> IF all = "rejected" THEN "fulfilled" ELSE all,
      close |-> all # "pending"]

\* The catch handler throws the error again without closing.
InstallPromiseChain_NoCloseOnError(revisioned, unrevisioned) ==
  LET all == PromiseAll(<<revisioned, unrevisioned>>)
  IN [result |-> all, close |-> all = "fulfilled"]

\* The install listener's promise chain: both install steps, then _close();
\* on a rejection _close() and the error thrown again.
InstallPromiseChain(revisioned, unrevisioned) ==
  LET all == PromiseAll(<<revisioned, unrevisioned>>)
  IN [result |-> all, close |-> all # "pending"]

\* The revisioned clean-up left out of the Promise.all.
ActivatePromiseChain_UnrevisionedOnly(revisioned, unrevisioned) ==
  LET all == PromiseAll(<<unrevisioned>>)
  IN [result |-> all, close |-> all # "pending"]

\* The activate listener's promise chain: both clean-ups, then _close().
ActivatePromiseChain(revisioned, unrevisioned) ==
  LET all == PromiseAll(<<revisioned, unrevisioned>>)
  IN [result |-> all, close |-> all # "pending"]

\* BaseCacheManager._performInstallStep: Promise.all over the entries' pc.
PerformInstallStep(p, ids) ==
  IF \E i \in ids : p[i] = "failed" THEN "rejected"
  ELSE IF \A i \in ids : p[i] = "done" THEN "fulfilled"
  ELSE "pending"

\* The worker's location, against which relative URLs are resolved.
Origin == "https://sw.example"

\* new URL(url, location).href for a path of the worker's origin.
ResolveUrl(url) == Origin \o url

\* BaseCacheManager.getCachedUrls over the revisioned install list: the
\* request URL of every entry, in list order.
GetCachedUrls(entries) ==
  [k \in 1..Len(entries) |-> ResolveUrl(entries[k].entryID)]

\* The same over the unrevisioned install list.
GetCachedUrlsUnrevisioned(urls) == {ResolveUrl(u) : u \in urls}

(***************************************************************************)
(* The sw-cache-expiration Behavior: its values and its pure steps.        *)
(***************************************************************************)
\* The URLs a runtime cache may hold, in the order IndexedDB sorts them as
\* primary keys.
UrlOrder == <<"/a", "/b", "/c">>
RuntimeUrls == {UrlOrder[k] : k \in DOMAIN UrlOrder}
KeyOrder(u) == CHOOSE k \in DOMAIN UrlOrder : UrlOrder[k] = u

\* The clock runs over whole seconds, up to MaxTime of them.
MaxTime == 2
MsPerSecond == 1000
Times == {s * MsPerSecond : s \in 0..MaxTime}

\* The cacheDidUpdate calls made on one cache.
MaxUpdates == 3

\* The cacheDidUpdate calls made where every behaviour is followed to its end.
MaxTrimWrites == 2

\* The cache names one Behavior is used with, and the calls made on them.
CacheNames == {"c1", "c2"}
MaxCalls == 3
Calls == 1..MaxCalls

\* JavaScript values a caller may pass as a bound.
JsUndefined == [type |-> "undefined", value |-> 0]
JsNumber(n) == [type |-> "number", value |-> n]
JsString == [type |-> "string", value |-> 0]

\* ToBoolean: undefined and 0 are falsy, a non-empty string is truthy.
Truthy(v) == v.type = "string" \/ (v.type = "number" /\ v.value # 0)

\* assert.atLeastOne: some property of the object is not undefined.
AtLeastOne(values) == \E k \in DOMAIN values : values[k].type # "undefined"

\* assert.isType: typeof value is the expected type.
IsType(v, expectedType) == v.type = expectedType

\* A Behavior instance, or the failure of its construction.
Behavior(input, maxEntries, maxAgeSeconds) ==
  [state |-> "constructed", error |-> None, input |-> input,
   maxEntries |-> maxEntries, maxAgeSeconds |-> maxAgeSeconds]

ConstructionFailed(input) ==
  [state |-> "failed", error |-> "InvalidConfiguration", input |-> input,
   maxEntries |-> JsUndefined, maxAgeSeconds |-> JsUndefined]

\* new Behavior({maxEntries, maxAgeSeconds})
Constructor(input) ==
  IF ~AtLeastOne(<<input.maxEntries, input.maxAgeSeconds>>)
    THEN ConstructionFailed(input)
  ELSE IF /\ input.maxEntries.type # "undefined"
          /\ ~IsType(input.maxEntries, "number")
    THEN ConstructionFailed(input)
  ELSE IF /\ input.maxAgeSeconds.type # "undefined"
          /\ ~IsType(input.maxAgeSeconds, "number")
    THEN ConstructionFailed(input)
  ELSE Behavior(input, input.maxEntries, input.maxAgeSeconds)

\* A Date header: missing (headers.get gives null), not a date, or a date.
NoDateHeader == [kind |-> "null", seconds |-> 0]
InvalidDateHeader == [kind |-> "invalid", seconds |-> 0]
DateHeader(s) == [kind |-> "date", seconds |-> s]

\* A cached response, or the absence of one.
NoResponse == [present |-> FALSE, date |-> NoDateHeader]
Response(header) == [present |-> TRUE, date |-> header]

\* JavaScript numbers as far as the freshness check computes with them.
NaN == [nan |-> TRUE, value |-> 0]
Num(n) == [nan |-> FALSE, value |-> n]
JsAdd(a, b) == IF a.nan \/ b.nan THEN NaN ELSE Num(a.value + b.value)
JsLessThan(a, b) == ~a.nan /\ ~b.nan /\ a.value < b.value

\* new Date(dateHeader).getTime(): milliseconds, NaN for what is not a date.
DateGetTime(header) ==
  IF header.kind = "date" THEN Num(header.seconds * MsPerSecond) ELSE NaN

\* An unparsable or missing Date header makes the response stale.
IsResponseFresh_InvalidDateStale(maxAgeSeconds, cachedResponse, now) ==
  IF cachedResponse.present /\ Truthy(maxAgeSeconds)
    THEN /\ cachedResponse.date.kind = "date"
         /\ ~JsLessThan(JsAdd(DateGetTime(cachedResponse.date),
                              Num(maxAgeSeconds.value * MsPerSecond)),
                        Num(now))
    ELSE TRUE

\* The comparison is <= : a response exactly maxAgeSeconds old is stale.
IsResponseFresh_EqualIsStale(maxAgeSeconds, cachedResponse, now) ==
  IF cachedResponse.present /\ Truthy(maxAgeSeconds)
    THEN IF cachedResponse.date.kind # "null"
           THEN LET expires == JsAdd(DateGetTime(cachedResponse.date),
                                     Num(maxAgeSeconds.value * MsPerSecond))
                IN ~(JsLessThan(expires, Num(now)) \/ expires = Num(now))
           ELSE TRUE
    ELSE TRUE

\* Behavior.isResponseFresh, with Date.now() passed as now.
IsResponseFresh(maxAgeSeconds, cachedResponse, now) ==
  IF cachedResponse.present /\ Truthy(maxAgeSeconds)
    THEN IF cachedResponse.date.kind # "null"
           THEN IF JsLessThan(JsAdd(DateGetTime(cachedResponse.date),
                                    Num(maxAgeSeconds.value * MsPerSecond)),
                              Num(now))
                  THEN FALSE
                  ELSE TRUE
           ELSE TRUE
    ELSE TRUE

\* What cacheWillMatch returns: the response handed in, or null.
NotReturned == [returned |-> FALSE, null |-> FALSE, response |-> NoResponse]
ReturnNull == [returned |-> TRUE, null |-> TRUE, response |-> NoResponse]
ReturnResponse(cachedResponse) ==
  [returned |-> TRUE, null |-> FALSE, response |-> cachedResponse]

\* The response is returned whether fresh or not.
CacheWillMatch_NoCheck(maxAgeSeconds, cachedResponse, now) ==
  ReturnResponse(cachedResponse)

\* Behavior.cacheWillMatch, with the Date.now() of its isResponseFresh call
\* passed as now.
CacheWillMatch(maxAgeSeconds, cachedResponse, now) ==
  IF IsResponseFresh(maxAgeSeconds, cachedResponse, now)
    THEN ReturnResponse(cachedResponse)
    ELSE ReturnNull

\* A record of the object store: keyPath url, indexed by timestamp.
Record(url, timestamp) == [url |-> url, timestamp |-> timestamp]

RecordedUrls(store) == {r.url : r \in store}

\* The record is added and the one with its key is left in place.
StorePut_KeepsOld(store, record) == store \cup {record}

\* IDBObjectStore.put: the record replaces the one with its key.
StorePut(store, record) ==
  {r \in store : r.url # record.url} \cup {record}

\* IDBObjectStore.delete
StoreDelete(store, url) == {r \in store : r.url # url}

\* The order of the timestamp index: by timestamp, then by primary key.
IndexBefore(r, s) ==
  \/ r.timestamp < s.timestamp
  \/ r.timestamp = s.timestamp /\ KeyOrder(r.url) < KeyOrder(s.url)

\* The records as a cursor over the timestamp index meets them.
RECURSIVE TimestampIndex(_)
TimestampIndex(store) ==
  IF store = {} THEN << >>
  ELSE LET first == CHOOSE r \in store :
                      \A s \in store \ {r} : IndexBefore(r, s)
       IN <<first>> \o TimestampIndex(store \ {first})

\* The comparison is <= : a record exactly maxAgeSeconds old is selected.
FindOldEntries_EqualIsOld(store, now, maxAgeSeconds) ==
  LET expireOlderThan == now - (maxAgeSeconds * MsPerSecond)
      index == TimestampIndex(store)
      old == SelectSeq(index, LAMBDA r : r.timestamp <= expireOlderThan)
  IN [k \in 1..Len(old) |-> old[k].url]

\* Behavior.findOldEntries: the URLs whose timestamp is before
\* now - maxAgeSeconds * 1000, in index order.
FindOldEntries(store, now, maxAgeSeconds) ==
  LET expireOlderThan == now - (maxAgeSeconds * MsPerSecond)
      index == TimestampIndex(store)
      old == SelectSeq(index, LAMBDA r : r.timestamp < expireOlderThan)
  IN [k \in 1..Len(old) |-> old[k].url]

\* The cursor of findExtraEntries: each record met is pushed, and the cursor
\* continues while more than maxEntries would be left.
RECURSIVE IterateCursor(_, _, _, _)
IterateCursor(index, urls, initialCount, maxEntries) ==
  IF index = << >> THEN urls
  ELSE LET pushed == Append(urls, Head(index).url)
       IN IF initialCount - Len(pushed) > maxEntries
            THEN IterateCursor(Tail(index), pushed, initialCount, maxEntries)
            ELSE pushed

\* The count is compared with >= : a cache exactly at maxEntries loses one.
FindExtraEntries_AtCapacity(store, maxEntries) ==
  LET initialCount == Cardinality(store)
  IN IF initialCount >= maxEntries
       THEN IterateCursor(TimestampIndex(store), << >>, initialCount,
                          maxEntries)
       ELSE << >>

\* Behavior.findExtraEntries: the oldest records beyond maxEntries.
FindExtraEntries(store, maxEntries) ==
  LET initialCount == Cardinality(store)
  IN IF initialCount > maxEntries
       THEN IterateCursor(TimestampIndex(store), << >>, initialCount,
                          maxEntries)
       ELSE << >>

\* [...new Set(array)]: each value once, at its first place.
RECURSIVE SetToArray(_)
SetToArray(array) ==
  IF array = << >> THEN << >>
  ELSE LET front == SetToArray(SubSeq(array, 1, Len(array) - 1))
           last == array[Len(array)]
       IN IF \E k \in DOMAIN front : front[k] = last
            THEN front ELSE Append(front, last)

\* The extra entries are left out of the list.
ExpireEntriesUrls_OldOnly(oldEntries, extraEntries) == SetToArray(oldEntries)

\* The list expireEntries deletes and returns.
ExpireEntriesUrls(oldEntries, extraEntries) ==
  SetToArray(oldEntries \o extraEntries)

(***************************************************************************)
(* State.                                                                  *)
(***************************************************************************)
VARIABLES
  gen,             \* the deployment (service worker instance) now running
  phase,           \* its lifecycle phase
  entriesToCache,  \* the revisioned manager's install list
  unrevEntries,    \* the unrevisioned manager's install list (URLs)
  declareCalls,    \* cacheRevisioned calls made on this worker
  declareResult,   \* the outcome of the last cacheRevisioned call
  revisionStore,   \* RevisionDetailsModel: identifier -> revision
  blobCache,       \* the revisioned manager's cache
  unrevCache,      \* the unrevisioned manager's cache
  pc,              \* each entry's position in _cacheEntry
  fetchCount,      \* network fetches of each entry in this install pass
  installError,    \* the entry whose rejection failed the install
  dbOpen,          \* whether the revision store's handle is open
  prev             \* the previous worker's install pass as it was left:
                   \* its manifest, whether it succeeded, what was committed

vars == <<gen, phase, entriesToCache, unrevEntries, declareCalls,
          declareResult, revisionStore, blobCache, unrevCache, pc,
          fetchCount, installError, dbOpen, prev>>

\* The state of the sw-cache-expiration Behavior and of the cache it bounds.
VARIABLES
  policy,          \* the Behavior: not yet constructed, constructed or failed
  clock,           \* Date.now(), in milliseconds
  idb,             \* the object store of the cache: url and timestamp records
  cacheStore,      \* the URLs with a response in the cache
  expire,          \* the expireEntries call under way, or the last one
  del,             \* each URL's position in deleteFromCacheAndIDB
  fresh,           \* the last isResponseFresh call and its answer
  didUpdate,       \* the cacheDidUpdate calls: their updates and their passes
  database,        \* the IndexedDB database the Behavior opens
  handles,         \* the Behavior's _dbs and _caches maps and the opens made
  calls,           \* the calls that go through getDB or getCache
  cacheFirst,      \* the CacheFirst handler: its handle call and its count
  cli              \* the SWCli process: its argv call and how it ended

\* What the steps on one cache leave alone.
handleVars == <<database, handles, calls, cacheFirst, cli>>

expirationVars ==
  <<policy, clock, idb, cacheStore, expire, del, fresh, didUpdate, handleVars>>

allVars == <<vars, expirationVars>>

AllUrls == Ids \cup UnrevUrls

ManifestIds == {entriesToCache[k].entryID : k \in 1..Len(entriesToCache)}

EntryOf(i) ==
  entriesToCache[CHOOSE k \in 1..Len(entriesToCache) :
                   entriesToCache[k].entryID = i]

ManifestSet == {entriesToCache[k] : k \in 1..Len(entriesToCache)}

\* The identifiers the storage of the revisioned manager records.
RecordedIds ==
  {i \in Ids : revisionStore[i] # None \/ CacheHas(blobCache, i)}

\* An entry whose record and blob are both in place.
Committed(e) ==
  /\ revisionStore[e.entryID] = e.revision
  /\ CacheHas(blobCache, e.entryID)

\* No earlier pass is known, or storage was cleared since.
NoPrev == [intact |-> FALSE, manifest |-> {}, ok |-> FALSE, committed |-> {}]

\* A fresh worker: new managers over empty storage.
InitPrecache ==
  /\ gen = 1
  /\ phase = "declaring"
  /\ entriesToCache = << >>
  /\ unrevEntries = {}
  /\ declareCalls = 0
  /\ declareResult = None
  /\ revisionStore = [i \in Ids |-> None]
  /\ blobCache = {}
  /\ unrevCache = {}
  /\ pc = [i \in AllUrls |-> "none"]
  /\ fetchCount = [i \in AllUrls |-> 0]
  /\ installError = None
  /\ dbOpen = FALSE
  /\ prev = NoPrev

\* No Behavior has been constructed and its cache is empty.
NoPolicy ==
  [state |-> "new", error |-> None,
   input |-> [maxEntries |-> JsUndefined, maxAgeSeconds |-> JsUndefined],
   maxEntries |-> JsUndefined, maxAgeSeconds |-> JsUndefined]

NoExpire == [pc |-> "idle", now |-> 0, oldEntries |-> << >>,
             extraEntries |-> << >>, urls |-> << >>, writtenSince |-> FALSE]

NoFresh == [called |-> FALSE, cachedResponse |-> NoResponse, now |-> 0,
            result |-> TRUE, willMatch |-> NotReturned]

\* No cacheDidUpdate call has been made.
NoDidUpdate ==
  [pending |-> [u \in RuntimeUrls |->
                  [pc |-> "none", now |-> 0, then |-> FALSE]],
   triggered |-> << >>,
   running |-> [url |-> "none", now |-> 0],
   calls |-> 0]

\* The database does not exist, nothing is memoized, no call is under way.
NoDatabase ==
  [created |-> FALSE, objectStores |-> {},
   records |-> [name \in CacheNames |-> {}]]

NoHandles ==
  [dbs |-> [name \in CacheNames |-> 0],
   caches |-> [name \in CacheNames |-> 0],
   opens |-> [kind \in {"db", "cache"} |-> [name \in CacheNames |-> 0]],
   last |-> 0]

NoCall == [pc |-> "idle", op |-> "none", cacheName |-> "none", handle |-> 0]

\* What the handler's awaits resolve with: undefined, null or a Response.
NoMatch == [type |-> "undefined", source |-> "none", url |-> "none"]
NullMatch == [type |-> "null", source |-> "none", url |-> "none"]
ResponseFrom(source, url) ==
  [type |-> "response", source |-> source, url |-> url]

\* The operand of ||: undefined and null are falsy, an object is truthy.
TruthyResponse(response) == response.type = "response"

\* CacheFirst.handle after its match: the right-hand side of || is evaluated
\* only when the left-hand side is falsy.
AfterMatch_AlwaysFetch(cachedResponse) == "fetchAndCache"

AfterMatch(cachedResponse) ==
  IF TruthyResponse(cachedResponse) THEN "return" ELSE "fetchAndCache"

NoHandle ==
  [pc |-> "idle", handled |-> 0, request |-> "none",
   cachedResponse |-> NoMatch, fetches |-> 0, writes |-> 0,
   response |-> NoMatch]

\* The command line as minimist parses it: the positional words (its _) and
\* the flags that are set.  "deploy" stands for any word that is no command.
MaxPositional == 2
Words == {"generate-sw", "build-file-manifest", "deploy"}
Flags == {"h", "help", "v", "version"}
Positionals ==
  UNION {[1..n -> Words] : n \in 0..MaxPositional}
CliArgs == [positional : Positionals, flags : SUBSET Flags]

\* What a call gives back: a promise in some state, or an exception thrown
\* before anything is returned.
Promise(state) == [kind |-> "promise", state |-> state]
Throws == [kind |-> "throws", state |-> "none"]

\* The methods SWCli defines.  handleCommand calls buildFileManifest, which
\* is not among them: the call of an undefined property throws a TypeError.
SWCliMethods ==
  {"argv", "printHelpText", "handleFlag", "handleCommand", "generateSW",
   "_generateGlobPatten", "_getRootOfWebApp", "_getFileExtensionsToCache",
   "_getFileContents", "_getFileExtensions", "_getFileManifestName",
   "_getServiceWorkerName", "_saveConfigFile", "_getFileManifestEntries",
   "_writeFilemanifest", "_filterFiles", "_getFileManifestDetails",
   "_getFileSize", "_getFileHash", "_buildServiceWorker", "_copySWLibFile"}

CallMethod(name) ==
  IF name \in SWCliMethods THEN Promise("pending") ELSE Throws

HandleCommand(command) ==
  CASE command = "generate-sw" -> CallMethod("generateSW")
    [] command = "build-file-manifest" -> CallMethod("buildFileManifest")
    [] OTHER -> Promise("rejected")

HandleFlag(flags) ==
  IF "h" \in flags \/ "help" \in flags \/ "v" \in flags \/ "version" \in flags
    THEN Promise("fulfilled")
    ELSE Promise("rejected")

\* process.exit is not called until the chain argv builds settles.
NoExit == -1

NoCli ==
  [pc |-> "idle", cliArgs |-> [positional |-> << >>, flags |-> {}],
   command |-> "none", returned |-> Promise("none"), exit |-> NoExit]

InitBehavior ==
  /\ policy = NoPolicy
  /\ clock = 0
  /\ idb = {}
  /\ cacheStore = {}
  /\ expire = NoExpire
  /\ del = [u \in RuntimeUrls |-> "none"]
  /\ fresh = NoFresh
  /\ didUpdate = NoDidUpdate
  /\ database = NoDatabase
  /\ handles = NoHandles
  /\ calls = [c \in Calls |-> NoCall]
  /\ cacheFirst = NoHandle
  /\ cli = NoCli

\* A fresh worker and no Behavior.
Init == InitPrecache /\ InitBehavior

\* The files are parsed and checked, and the entries are then dropped.
CacheRevisioned_EntriesDropped(revisionedFiles) ==
  /\ phase = "declaring"
  /\ declareCalls < MaxDeclares
  /\ LET out == Cache(entriesToCache, revisionedFiles)
     IN declareResult' = IF out.error = None THEN "ok" ELSE out.error
  /\ declareCalls' = declareCalls + 1
  /\ UNCHANGED <<gen, phase, entriesToCache, unrevEntries, revisionStore,
                 blobCache, unrevCache, pc, fetchCount, installError, dbOpen,
                 prev>>
  /\ UNCHANGED expirationVars

\* PrecacheManager.cacheRevisioned
CacheRevisioned(revisionedFiles) ==
  /\ phase = "declaring"
  /\ declareCalls < MaxDeclares
  /\ LET out == Cache(entriesToCache, revisionedFiles)
     IN /\ entriesToCache' = out.entries
        /\ declareResult' = IF out.error = None THEN "ok" ELSE out.error
  /\ declareCalls' = declareCalls + 1
  /\ UNCHANGED <<gen, phase, unrevEntries, revisionStore, blobCache,
                 unrevCache, pc, fetchCount, installError, dbOpen, prev>>
  /\ UNCHANGED expirationVars

\* PrecacheManager.cacheUnrevisioned
CacheUnrevisioned(u) ==
  /\ phase = "declaring"
  /\ u \notin unrevEntries
  /\ unrevEntries' = unrevEntries \cup {u}
  /\ UNCHANGED <<gen, phase, entriesToCache, declareCalls, declareResult,
                 revisionStore, blobCache, unrevCache, pc, fetchCount,
                 installError, dbOpen, prev>>
  /\ UNCHANGED expirationVars

\* What an entry's step leaves of the install listener's promise chain: the
\* chain settles in the microtasks of the step that settles its last input.
ChainAfter(p, i, usedStore) ==
  IF phase = "installing"
    THEN LET chain == InstallPromiseChain(
                        PerformInstallStep(p, ManifestIds),
                        PerformInstallStep(p, unrevEntries))
         IN /\ phase' = CASE chain.result = "fulfilled" -> "installed"
                          [] chain.result = "rejected" -> "installFailed"
                          [] OTHER -> "installing"
            /\ installError' =
                 IF chain.result = "rejected" THEN i ELSE installError
            /\ dbOpen' = IF chain.close THEN FALSE ELSE (dbOpen \/ usedStore)
    ELSE /\ UNCHANGED <<phase, installError>>
         /\ dbOpen' = (dbOpen \/ usedStore)

\* The install listener: every entry's _cacheEntry is started.
InstallListener ==
  /\ phase = "declaring"
  /\ LET p == [i \in AllUrls |->
                 IF i \in ManifestIds THEN "check"
                 ELSE IF i \in unrevEntries THEN "check"
                 ELSE "none"]
     IN /\ pc' = p
        /\ LET chain == InstallPromiseChain(
                          PerformInstallStep(p, ManifestIds),
                          PerformInstallStep(p, unrevEntries))
           IN /\ phase' = IF chain.result = "fulfilled"
                            THEN "installed" ELSE "installing"
              /\ dbOpen' = IF chain.close THEN FALSE ELSE dbOpen
  /\ fetchCount' = [i \in AllUrls |-> 0]
  /\ installError' = None
  /\ declareCalls' = 0
  /\ declareResult' = None
  /\ UNCHANGED <<gen, entriesToCache, unrevEntries, revisionStore, blobCache,
                 unrevCache, prev>>
  /\ UNCHANGED expirationVars

\* _cacheEntry up to the fetch: _isAlreadyCached reads the entry's record and
\* its cached response (nothing else touches this entry's keys in between),
\* and the fetch is issued unless it answers true.  The unrevisioned manager
\* never answers true.
CheckEntry(i) ==
  /\ pc[i] = "check"
  /\ LET cached == IF i \in Ids
                     THEN IsAlreadyCached(revisionStore[i],
                                          CacheMatch(blobCache, i), EntryOf(i))
                     ELSE FALSE
         p == [pc EXCEPT ![i] = IF cached THEN "done" ELSE "fetch"]
     IN /\ pc' = p
        /\ fetchCount' =
             [fetchCount EXCEPT ![i] = IF cached THEN @ ELSE @ + 1]
        /\ ChainAfter(p, i, i \in Ids)
  /\ UNCHANGED <<gen, entriesToCache, unrevEntries, declareCalls,
                 declareResult, revisionStore, blobCache, unrevCache, prev>>
  /\ UNCHANGED expirationVars

\* The fetch settles: a response that is ok, or not.
FetchSettles(i, ok) ==
  /\ pc[i] = "fetch"
  /\ LET p == [pc EXCEPT ![i] = IF ok THEN "put" ELSE "failed"]
     IN pc' = p /\ ChainAfter(p, i, FALSE)
  /\ UNCHANGED <<gen, entriesToCache, unrevEntries, declareCalls,
                 declareResult, revisionStore, blobCache, unrevCache,
                 fetchCount, prev>>
  /\ UNCHANGED expirationVars

\* openCache.put(precacheEntry.request, response) settles.
PutSettles(i, ok) ==
  /\ pc[i] = "put"
  /\ LET p == [pc EXCEPT ![i] = IF ~ok THEN "failed"
                                 ELSE IF i \in Ids THEN "commit" ELSE "done"]
     IN pc' = p /\ ChainAfter(p, i, FALSE)
  /\ IF ok /\ i \in Ids
       THEN /\ blobCache' = CachePut(blobCache, i, EntryOf(i).revision)
            /\ UNCHANGED unrevCache
     ELSE IF ok
       THEN /\ unrevCache' = CachePut(unrevCache, i, "new")
            /\ UNCHANGED blobCache
     ELSE UNCHANGED <<blobCache, unrevCache>>
  /\ UNCHANGED <<gen, entriesToCache, unrevEntries, declareCalls,
                 declareResult, revisionStore, fetchCount, prev>>
  /\ UNCHANGED expirationVars

\* _onEntryCached settles: the record is committed.
CommitEntry(i) ==
  /\ i \in Ids
  /\ pc[i] = "commit"
  /\ revisionStore' = OnEntryCached(revisionStore, EntryOf(i))
  /\ LET p == [pc EXCEPT ![i] = "done"]
     IN pc' = p /\ ChainAfter(p, i, TRUE)
  /\ UNCHANGED <<gen, entriesToCache, unrevEntries, declareCalls,
                 declareResult, blobCache, unrevCache, fetchCount, prev>>
  /\ UNCHANGED expirationVars

\* BaseCacheManager._cleanUpOldEntries: what storage records and the install
\* list no longer names.
RevisionedOrphans == RecordedIds \ ManifestIds

UnrevisionedOrphans == {u \in UnrevUrls : CacheHas(unrevCache, u)} \ unrevEntries

\* A clean-up is done once nothing is left for it to delete.
CleanUpOldEntries(orphans) == IF orphans = {} THEN "fulfilled" ELSE "pending"

\* The activate listener: both clean-ups are started.
ActivateListener ==
  /\ phase = "installed"
  /\ LET chain == ActivatePromiseChain(
                    CleanUpOldEntries(RevisionedOrphans),
                    CleanUpOldEntries(UnrevisionedOrphans))
     IN /\ phase' = IF chain.result = "fulfilled"
                      THEN "activated" ELSE "activating"
        /\ dbOpen' = IF chain.close THEN FALSE ELSE dbOpen
  /\ UNCHANGED <<gen, entriesToCache, unrevEntries, declareCalls,
                 declareResult, revisionStore, blobCache, unrevCache, pc,
                 fetchCount, installError, prev>>
  /\ UNCHANGED expirationVars

\* One orphan of the revisioned manager is deleted from the cache and from
\* the revision store; the chain settles with the last deletion.
CleanUpDelete(i) ==
  /\ phase = "activating"
  /\ i \in RevisionedOrphans
  /\ blobCache' = CacheDelete(blobCache, i)
  /\ revisionStore' = [revisionStore EXCEPT ![i] = None]
  /\ LET chain == ActivatePromiseChain(
                    CleanUpOldEntries(RevisionedOrphans \ {i}),
                    CleanUpOldEntries(UnrevisionedOrphans))
     IN /\ phase' = IF chain.result = "fulfilled"
                      THEN "activated" ELSE "activating"
        /\ dbOpen' = IF chain.close THEN FALSE ELSE TRUE
  /\ UNCHANGED <<gen, entriesToCache, unrevEntries, declareCalls,
                 declareResult, unrevCache, pc, fetchCount, installError,
                 prev>>
  /\ UNCHANGED expirationVars

\* One orphan of the unrevisioned manager is deleted from its cache.
CleanUpDeleteUnrevisioned(u) ==
  /\ phase = "activating"
  /\ u \in UnrevisionedOrphans
  /\ unrevCache' = CacheDelete(unrevCache, u)
  /\ LET chain == ActivatePromiseChain(
                    CleanUpOldEntries(RevisionedOrphans),
                    CleanUpOldEntries(UnrevisionedOrphans \ {u}))
     IN /\ phase' = IF chain.result = "fulfilled"
                      THEN "activated" ELSE "activating"
        /\ dbOpen' = IF chain.close THEN FALSE ELSE dbOpen
  /\ UNCHANGED <<gen, entriesToCache, unrevEntries, declareCalls,
                 declareResult, revisionStore, blobCache, pc, fetchCount,
                 installError, prev>>
  /\ UNCHANGED expirationVars

\* The next deployment: a new worker with new managers over the same storage.
\* What the old worker still had in flight is dropped with it.
NewWorker ==
  /\ phase \in {"installFailed", "activated"}
  /\ gen < MaxDeploys
  /\ gen' = gen + 1
  /\ phase' = "declaring"
  /\ prev' = [intact |-> TRUE,
              manifest |-> ManifestSet,
              ok |-> (phase = "activated"),
              committed |-> {e \in ManifestSet : Committed(e)}]
  /\ entriesToCache' = << >>
  /\ unrevEntries' = {}
  /\ declareCalls' = 0
  /\ declareResult' = None
  /\ pc' = [i \in AllUrls |-> "none"]
  /\ fetchCount' = [i \in AllUrls |-> 0]
  /\ installError' = None
  /\ unrevCache' = {Blob(e.key, "old") : e \in unrevCache}
  /\ UNCHANGED <<revisionStore, blobCache, dbOpen>>
  /\ UNCHANGED expirationVars

\* Between deployments the browser or the user removes a stored response or
\* a revision record.
StorageCleared(i, what) ==
  /\ phase = "declaring"
  /\ gen > 1
  /\ declareCalls = 0
  /\ entriesToCache = << >>
  /\ unrevEntries = {}
  /\ \/ /\ what = "blob"
        /\ CacheHas(blobCache, i)
        /\ blobCache' = CacheDelete(blobCache, i)
        /\ UNCHANGED revisionStore
     \/ /\ what = "record"
        /\ revisionStore[i] # None
        /\ revisionStore' = [revisionStore EXCEPT ![i] = None]
        /\ UNCHANGED blobCache
  /\ prev' = NoPrev
  /\ UNCHANGED <<gen, phase, entriesToCache, unrevEntries, declareCalls,
                 declareResult, unrevCache, pc, fetchCount, installError,
                 dbOpen>>
  /\ UNCHANGED expirationVars

Next ==
  \/ \E revisionedFiles \in SeqsUpTo(ManifestEntries, MaxManifest) :
       CacheRevisioned(revisionedFiles)
  \/ \E u \in UnrevUrls : CacheUnrevisioned(u)
  \/ InstallListener
  \/ \E i \in AllUrls : CheckEntry(i)
  \/ \E i \in AllUrls, ok \in BOOLEAN : FetchSettles(i, ok)
  \/ \E i \in AllUrls, ok \in BOOLEAN : PutSettles(i, ok)
  \/ \E i \in Ids : CommitEntry(i)
  \/ ActivateListener
  \/ \E i \in Ids : CleanUpDelete(i)
  \/ \E u \in UnrevUrls : CleanUpDeleteUnrevisioned(u)
  \/ NewWorker
  \/ \E i \in Ids, what \in {"blob", "record"} : StorageCleared(i, what)

Spec == Init /\ [][Next]_allVars

\* The declarations alone, on one worker, over every raw entry.
NextDeclare ==
  \/ \E revisionedFiles \in SeqsUpTo(RawEntries, MaxManifest) :
       CacheRevisioned(revisionedFiles)
  \/ \E u \in UnrevUrls : CacheUnrevisioned(u)

SpecDeclare == Init /\ [][NextDeclare]_allVars

(***************************************************************************)
(* The sw-cache-expiration Behavior over one cache.                        *)
(***************************************************************************)
\* The values a caller may pass for a bound, and the inputs made of them.
BoundValues ==
  {JsUndefined, JsString, JsNumber(-1), JsNumber(0), JsNumber(1), JsNumber(2)}

ConstructorInputs ==
  {[maxEntries |-> e, maxAgeSeconds |-> a] : e \in BoundValues,
                                             a \in BoundValues}

\* The inputs of the documented kind: each bound left out or a positive
\* number, and one of them given.
PositiveBounds(input) ==
  /\ \A v \in {input.maxEntries, input.maxAgeSeconds} :
       v.type = "undefined" \/ (v.type = "number" /\ v.value > 0)
  /\ AtLeastOne(<<input.maxEntries, input.maxAgeSeconds>>)

\* The cached responses isResponseFresh may be asked about.
CachedResponses ==
  {NoResponse, Response(NoDateHeader), Response(InvalidDateHeader)}
    \cup {Response(DateHeader(s)) : s \in 0..MaxTime}

\* new Behavior(input)
Construct(input) ==
  /\ policy.state = "new"
  /\ policy' = Constructor(input)
  /\ UNCHANGED <<clock, idb, cacheStore, expire, del, fresh>>
  /\ UNCHANGED <<didUpdate, handleVars>>
  /\ UNCHANGED vars

\* Time passes.
Tick ==
  /\ clock < MaxTime * MsPerSecond
  /\ clock' = clock + MsPerSecond
  /\ UNCHANGED <<policy, idb, cacheStore, expire, del, fresh>>
  /\ UNCHANGED <<didUpdate, handleVars>>
  /\ UNCHANGED vars

\* behavior.isResponseFresh({cachedResponse})
IsResponseFreshCall(cachedResponse) ==
  /\ policy.state = "constructed"
  /\ fresh' = [called |-> TRUE, cachedResponse |-> cachedResponse,
               now |-> clock,
               result |-> IsResponseFresh(policy.maxAgeSeconds,
                                          cachedResponse, clock),
               willMatch |-> NotReturned]
  /\ UNCHANGED <<policy, clock, idb, cacheStore, expire, del>>
  /\ UNCHANGED <<didUpdate, handleVars>>
  /\ UNCHANGED vars

\* behavior.cacheWillMatch({cachedResponse}): the freshness check is made
\* and the response or null is returned.
CacheWillMatchCall(cachedResponse) ==
  /\ policy.state = "constructed"
  /\ fresh' = [called |-> TRUE, cachedResponse |-> cachedResponse,
               now |-> clock,
               result |-> IsResponseFresh(policy.maxAgeSeconds,
                                          cachedResponse, clock),
               willMatch |-> CacheWillMatch(policy.maxAgeSeconds,
                                            cachedResponse, clock)]
  /\ UNCHANGED <<policy, clock, idb, cacheStore, expire, del>>
  /\ UNCHANGED <<didUpdate, handleVars>>
  /\ UNCHANGED vars

\* Whether a deletion of the last expireEntries call is still under way.
Deleting == \E u \in RuntimeUrls : del[u] \in {"cacheDelete", "storeDelete"}

\* A write to the cache or to the object store since expireEntries began.
Written ==
  IF expire.pc = "idle" THEN expire
  ELSE [expire EXCEPT !.writtenSince = TRUE]

\* The handler that owns the cache stores a response: cache.put(url).
WriteResponse(url) ==
  /\ policy.state = "constructed"
  /\ url \notin cacheStore
  /\ cacheStore' = cacheStore \cup {url}
  /\ expire' = Written
  /\ UNCHANGED <<policy, clock, idb, del, fresh>>
  /\ UNCHANGED <<didUpdate, handleVars>>
  /\ UNCHANGED vars

\* behavior.updateTimestamp({cacheName, url, now}): one readwrite transaction
\* puts the record.
UpdateTimestamp(url) ==
  /\ policy.state = "constructed"
  /\ idb' = StorePut(idb, Record(url, clock))
  /\ idb' # idb
  /\ expire' = Written
  /\ UNCHANGED <<policy, clock, cacheStore, del, fresh>>
  /\ UNCHANGED <<didUpdate, handleVars>>
  /\ UNCHANGED vars

\* The end of expireEntries: the list is made, deleteFromCacheAndIDB starts
\* cache.delete for every URL of it inside forEach, awaits what forEach
\* returned, which is undefined, and expireEntries returns the list.
ReturnUrls(oldEntries, extraEntries) ==
  \E urls \in {ExpireEntriesUrls(oldEntries, extraEntries)} :
     /\ expire' = [expire EXCEPT !.pc = "returned",
                                 !.oldEntries = << >>,
                                 !.extraEntries = << >>,
                                 !.urls = urls]
     /\ del' = [u \in RuntimeUrls |->
                  IF \E k \in DOMAIN urls : urls[k] = u
                    THEN "cacheDelete" ELSE "none"]

\* behavior.expireEntries({cacheName, now}) is called.
ExpireEntries ==
  /\ policy.state = "constructed"
  /\ expire.pc \in {"idle", "returned"}
  /\ ~Deleting
  /\ LET call == [NoExpire EXCEPT !.now = clock]
     IN IF Truthy(policy.maxAgeSeconds)
          THEN /\ expire' = [call EXCEPT !.pc = "findOldEntries"]
               /\ del' = [u \in RuntimeUrls |-> "none"]
        ELSE IF Truthy(policy.maxEntries)
          THEN /\ expire' = [call EXCEPT !.pc = "findExtraEntries"]
               /\ del' = [u \in RuntimeUrls |-> "none"]
        ELSE /\ expire' = [call EXCEPT !.pc = "returned"]
             /\ del' = [u \in RuntimeUrls |-> "none"]
  /\ UNCHANGED <<policy, clock, idb, cacheStore, fresh>>
  /\ UNCHANGED <<didUpdate, handleVars>>
  /\ UNCHANGED vars

\* The readonly transaction of findOldEntries completes.
FindOldEntriesSettles ==
  /\ expire.pc = "findOldEntries"
  /\ \E oldEntries \in {FindOldEntries(idb, expire.now,
                                        policy.maxAgeSeconds.value)} :
        IF Truthy(policy.maxEntries)
          THEN /\ expire' = [expire EXCEPT !.pc = "findExtraEntries",
                                           !.oldEntries = oldEntries]
               /\ UNCHANGED del
          ELSE ReturnUrls(oldEntries, << >>)
  /\ UNCHANGED <<policy, clock, idb, cacheStore, fresh>>
  /\ UNCHANGED <<didUpdate, handleVars>>
  /\ UNCHANGED vars

\* The readonly transaction of findExtraEntries completes.
FindExtraEntriesSettles ==
  /\ expire.pc = "findExtraEntries"
  /\ \E extraEntries \in {FindExtraEntries(idb, policy.maxEntries.value)} :
        ReturnUrls(expire.oldEntries, extraEntries)
  /\ UNCHANGED <<policy, clock, idb, cacheStore, fresh>>
  /\ UNCHANGED <<didUpdate, handleVars>>
  /\ UNCHANGED vars

\* cache.delete(url) settles; a rejection ends the URL's callback, whose
\* promise nothing holds.
CacheDeleteSettles(url, ok) ==
  /\ del[url] = "cacheDelete"
  /\ IF ok
       THEN /\ cacheStore' = cacheStore \ {url}
            /\ del' = [del EXCEPT ![url] = "storeDelete"]
       ELSE /\ del' = [del EXCEPT ![url] = "failed"]
            /\ UNCHANGED cacheStore
  /\ UNCHANGED <<policy, clock, idb, expire, fresh>>
  /\ UNCHANGED <<didUpdate, handleVars>>
  /\ UNCHANGED vars

\* store.delete(url) and its transaction settle.
StoreDeleteSettles(url, ok) ==
  /\ del[url] = "storeDelete"
  /\ IF ok
       THEN /\ idb' = StoreDelete(idb, url)
            /\ del' = [del EXCEPT ![url] = "done"]
       ELSE /\ del' = [del EXCEPT ![url] = "failed"]
            /\ UNCHANGED idb
  /\ UNCHANGED <<policy, clock, cacheStore, expire, fresh>>
  /\ UNCHANGED <<didUpdate, handleVars>>
  /\ UNCHANGED vars

\* A Behavior with positive bounds over a cache that starts empty.
InitExpire ==
  /\ InitPrecache
  /\ policy \in {Constructor(input) :
                   input \in {i \in ConstructorInputs : PositiveBounds(i)}}
  /\ clock = 0
  /\ idb = {}
  /\ cacheStore = {}
  /\ expire = NoExpire
  /\ del = [u \in RuntimeUrls |-> "none"]
  /\ fresh = NoFresh
  /\ didUpdate = NoDidUpdate
  /\ database = NoDatabase
  /\ handles = NoHandles
  /\ calls = [c \in Calls |-> NoCall]
  /\ cacheFirst = NoHandle
  /\ cli = NoCli

NextExpire ==
  \/ Tick
  \/ \E url \in RuntimeUrls : WriteResponse(url)
  \/ \E url \in RuntimeUrls : UpdateTimestamp(url)
  \/ ExpireEntries
  \/ FindOldEntriesSettles
  \/ FindExtraEntriesSettles
  \/ \E url \in RuntimeUrls, ok \in BOOLEAN : CacheDeleteSettles(url, ok)
  \/ \E url \in RuntimeUrls, ok \in BOOLEAN : StoreDeleteSettles(url, ok)

SpecExpire == InitExpire /\ [][NextExpire]_allVars

(***************************************************************************)
(* The Behavior as the plugin of a handler: every write is reported, and    *)
(* every storage operation succeeds (failures are in SpecExpire).          *)
(***************************************************************************)
\* expireEntries is called at once, beside updateTimestamp and not after it.
CacheDidUpdateCall_NoWait(d, url, now) ==
  [d EXCEPT !.pending[url] =
              [pc |-> "updateTimestamp", now |-> now, then |-> FALSE],
            !.triggered = Append(@, [url |-> url, now |-> now]),
            !.calls = @ + 1]

\* cacheDidUpdate: updateTimestamp is called with now = Date.now() and
\* expireEntries is chained to it with then.
CacheDidUpdateCall(d, url, now) ==
  [d EXCEPT !.pending[url] =
              [pc |-> "updateTimestamp", now |-> now, then |-> TRUE],
            !.calls = @ + 1]

\* The handler has put a response under the URL and reports it:
\* behavior.cacheDidUpdate({cacheName, newResponse}).
CacheDidUpdate(url) ==
  /\ policy.state = "constructed"
  /\ didUpdate.calls < MaxUpdates
  /\ didUpdate.pending[url].pc = "none"
  /\ cacheStore' = cacheStore \cup {url}
  /\ didUpdate' = CacheDidUpdateCall(didUpdate, url, clock)
  /\ expire' = Written
  /\ UNCHANGED <<policy, clock, idb, del, fresh, handleVars>>
  /\ UNCHANGED vars

\* The transaction of the updateTimestamp that cacheDidUpdate called
\* completes, and the then callback calls expireEntries with the same now;
\* the call waits in triggered until its first transaction runs.
DidUpdateTimestampSettles(url) ==
  /\ didUpdate.pending[url].pc = "updateTimestamp"
  /\ idb' = StorePut(idb, Record(url, didUpdate.pending[url].now))
  /\ didUpdate' =
       [didUpdate EXCEPT
          !.pending[url] = [pc |-> "none", now |-> 0, then |-> FALSE],
          !.triggered =
            IF didUpdate.pending[url].then
              THEN Append(@, [url |-> url,
                               now |-> didUpdate.pending[url].now])
              ELSE @]
  /\ expire' = Written
  /\ UNCHANGED <<policy, clock, cacheStore, del, fresh, handleVars>>
  /\ UNCHANGED vars

\* The expireEntries call of the oldest then callback gets under way.
ExpireEntriesTriggered ==
  /\ didUpdate.triggered # << >>
  /\ expire.pc \in {"idle", "returned"}
  /\ ~Deleting
  /\ LET call == [NoExpire EXCEPT !.now = Head(didUpdate.triggered).now]
     IN expire' = [call EXCEPT !.pc =
                     IF Truthy(policy.maxAgeSeconds) THEN "findOldEntries"
                     ELSE IF Truthy(policy.maxEntries) THEN "findExtraEntries"
                     ELSE "returned"]
  /\ del' = [u \in RuntimeUrls |-> "none"]
  /\ didUpdate' = [didUpdate EXCEPT !.triggered = Tail(@),
                                    !.running = Head(didUpdate.triggered)]
  /\ UNCHANGED <<policy, clock, idb, cacheStore, fresh, handleVars>>
  /\ UNCHANGED vars

NextUpdate ==
  \/ Tick
  \/ \E url \in RuntimeUrls : CacheDidUpdate(url)
  \/ \E url \in RuntimeUrls : DidUpdateTimestampSettles(url)
  \/ ExpireEntriesTriggered
  \/ FindOldEntriesSettles
  \/ FindExtraEntriesSettles
  \/ \E url \in RuntimeUrls : CacheDeleteSettles(url, TRUE)
  \/ \E url \in RuntimeUrls : StoreDeleteSettles(url, TRUE)

\* A transaction or a cache operation that was started settles, or a
\* triggered pass gets under way.
Settles ==
  \/ \E url \in RuntimeUrls : DidUpdateTimestampSettles(url)
  \/ ExpireEntriesTriggered
  \/ FindOldEntriesSettles
  \/ FindExtraEntriesSettles
  \/ \E url \in RuntimeUrls : CacheDeleteSettles(url, TRUE)
  \/ \E url \in RuntimeUrls : StoreDeleteSettles(url, TRUE)

\* What was started does not stay pending for ever.
FairUpdate == WF_allVars(Settles)

SpecUpdate == InitExpire /\ [][NextUpdate]_allVars

\* A Behavior made for a cache that an earlier run of the service worker left
\* with one recorded response: the cache and the object store outlive the
\* Behavior.
InitTrim ==
  /\ InitPrecache
  /\ policy \in {Constructor(input) :
                   input \in {i \in ConstructorInputs : PositiveBounds(i)}}
  /\ clock = 0
  /\ idb = {Record(UrlOrder[1], 0)}
  /\ cacheStore = {UrlOrder[1]}
  /\ expire = NoExpire
  /\ del = [u \in RuntimeUrls |-> "none"]
  /\ fresh = NoFresh
  /\ didUpdate = NoDidUpdate
  /\ database = NoDatabase
  /\ handles = NoHandles
  /\ calls = [c \in Calls |-> NoCall]
  /\ cacheFirst = NoHandle
  /\ cli = NoCli

\* cacheDidUpdate, for the writes of a handler that stops writing.
ReportedWrite(url) ==
  /\ didUpdate.calls < MaxTrimWrites
  /\ CacheDidUpdate(url)

NextTrim ==
  \/ Tick
  \/ \E url \in RuntimeUrls : ReportedWrite(url)
  \/ \E url \in RuntimeUrls : DidUpdateTimestampSettles(url)
  \/ ExpireEntriesTriggered
  \/ FindOldEntriesSettles
  \/ FindExtraEntriesSettles
  \/ \E url \in RuntimeUrls : CacheDeleteSettles(url, TRUE)
  \/ \E url \in RuntimeUrls : StoreDeleteSettles(url, TRUE)

SpecTrim == InitTrim /\ [][NextTrim]_allVars /\ FairUpdate

(***************************************************************************)
(* The handles of a Behavior: getDB and getCache over several cache names. *)
(* The database is the one idb.open(idbName, idbVersion) names, with an    *)
(* object store per cache name it was upgraded for.                        *)
(***************************************************************************)
\* The map a call of the operation consults: _dbs or _caches.
KindOf(op) == IF op = "getCache" THEN "cache" ELSE "db"

Memo(kind) == IF kind = "cache" THEN handles.caches ELSE handles.dbs

\* this._dbs.set(cacheName, openDb) / this._caches.set(cacheName, openCache).
SetHandle(h, kind, cacheName, handle) ==
  IF kind = "cache"
    THEN [h EXCEPT !.caches[cacheName] = handle, !.last = handle]
    ELSE [h EXCEPT !.dbs[cacheName] = handle, !.last = handle]

\* The upgrade callback of idb.open: it runs when the database does not
\* exist at idbVersion yet, and creates the object store of the cache name
\* of the getDB call that opened it.
Upgrade(db, cacheName) ==
  IF db.created THEN db
  ELSE [db EXCEPT !.created = TRUE, !.objectStores = {cacheName}]

\* The operation is called: getCache({cacheName}), or updateTimestamp, which
\* begins with getDB({cacheName}).  The call runs up to its first await: the
\* map is looked up, and the store is opened when the name is not in it.
CallHandle(c, op, cacheName) ==
  /\ policy.state = "constructed"
  /\ calls[c].pc = "idle"
  /\ LET kind == KindOf(op)
         has == Memo(kind)[cacheName] # 0
     IN /\ calls' = [calls EXCEPT ![c] =
                       [pc |-> IF ~has THEN "open"
                               ELSE IF op = "getCache" THEN "done"
                               ELSE "transaction",
                        op |-> op, cacheName |-> cacheName,
                        handle |-> Memo(kind)[cacheName]]]
        /\ handles' = IF has THEN handles
                      ELSE [handles EXCEPT !.opens[kind][cacheName] = @ + 1]
  /\ UNCHANGED database
  /\ UNCHANGED <<policy, clock, idb, cacheStore, expire, del, fresh,
                 didUpdate, cacheFirst, cli>>
  /\ UNCHANGED vars

\* idb.open or caches.open settles with a new handle; the call puts it in
\* the map and returns what the map then holds.
OpenSettles(c) ==
  /\ calls[c].pc = "open"
  /\ LET kind == KindOf(calls[c].op)
         cacheName == calls[c].cacheName
         set == SetHandle(handles, kind, cacheName, handles.last + 1)
     IN /\ handles' = set
        /\ calls' = [calls EXCEPT
                       ![c].pc = IF kind = "cache" THEN "done"
                                 ELSE "transaction",
                       ![c].handle = IF kind = "cache"
                                       THEN set.caches[cacheName]
                                       ELSE set.dbs[cacheName]]
        /\ database' = IF kind = "db" THEN Upgrade(database, cacheName)
                       ELSE database
  /\ UNCHANGED <<policy, clock, idb, cacheStore, expire, del, fresh,
                 didUpdate, cacheFirst, cli>>
  /\ UNCHANGED vars

\* updateTimestamp after getDB: db.transaction(cacheName, 'readwrite') throws
\* when the database has no object store of that name; otherwise the record
\* is put.
TransactionSettles(c, url) ==
  /\ calls[c].pc = "transaction"
  /\ LET cacheName == calls[c].cacheName
     IN IF cacheName \in database.objectStores
          THEN /\ database' =
                    [database EXCEPT !.records[cacheName] =
                       StorePut(@, Record(url, clock))]
               /\ calls' = [calls EXCEPT ![c].pc = "done"]
          ELSE /\ calls' = [calls EXCEPT ![c].pc = "failed"]
               /\ UNCHANGED database
  /\ UNCHANGED handles
  /\ UNCHANGED <<policy, clock, idb, cacheStore, expire, del, fresh,
                 didUpdate, cacheFirst, cli>>
  /\ UNCHANGED vars

NextDB ==
  \/ \E c \in Calls, op \in {"updateTimestamp", "getCache"},
        cacheName \in CacheNames : CallHandle(c, op, cacheName)
  \/ \E c \in Calls : OpenSettles(c)
  \/ \E c \in Calls, url \in RuntimeUrls : TransactionSettles(c, url)

SpecDB == InitExpire /\ [][NextDB]_allVars

\* Construction and the freshness check, over every input.
NextPolicy ==
  \/ \E input \in ConstructorInputs : Construct(input)
  \/ Tick
  \/ \E cachedResponse \in CachedResponses :
       IsResponseFreshCall(cachedResponse)
  \/ \E cachedResponse \in CachedResponses :
       CacheWillMatchCall(cachedResponse)

SpecPolicy == Init /\ [][NextPolicy]_allVars

(***************************************************************************)
(* The cache-first handler.                                                *)
(***************************************************************************)

MaxHandles == 2

\* handle({event}): the assertion on the event, then the match is awaited.
\* A failed assertion in an async function is a rejected promise.
Handle(isFetchEvent, request) ==
  /\ cacheFirst.pc \in {"idle", "returned", "rejected"}
  /\ cacheFirst.handled < MaxHandles
  /\ cacheFirst' =
       [NoHandle EXCEPT !.handled = cacheFirst.handled + 1,
                        !.request = request,
                        !.pc = IF isFetchEvent THEN "match" ELSE "rejected"]
  /\ UNCHANGED <<policy, clock, idb, cacheStore, expire, del, fresh,
                 didUpdate, database, handles, calls, cli>>
  /\ UNCHANGED vars

\* requestWrapper.match resolves: the value is returned if it is truthy,
\* and fetchAndCache is called with the same request otherwise.
MatchSettles(cachedResponse) ==
  /\ cacheFirst.pc = "match"
  /\ cacheFirst' =
       IF AfterMatch(cachedResponse) = "return"
         THEN [cacheFirst EXCEPT !.pc = "returned",
                                 !.cachedResponse = cachedResponse,
                                 !.response = cachedResponse]
         ELSE [cacheFirst EXCEPT !.pc = "fetchAndCache",
                                 !.cachedResponse = cachedResponse,
                                 !.fetches = @ + 1]
  /\ UNCHANGED <<policy, clock, idb, cacheStore, expire, del, fresh,
                 didUpdate, database, handles, calls, cli>>
  /\ UNCHANGED vars

\* requestWrapper.match rejects, and so does handle.
MatchRejects ==
  /\ cacheFirst.pc = "match"
  /\ cacheFirst' = [cacheFirst EXCEPT !.pc = "rejected"]
  /\ UNCHANGED <<policy, clock, idb, cacheStore, expire, del, fresh,
                 didUpdate, database, handles, calls, cli>>
  /\ UNCHANGED vars

\* requestWrapper.fetchAndCache settles: with the network's response, which
\* it has put in the cache or not, or with a rejection.
FetchAndCacheSettles(ok, cached) ==
  /\ cacheFirst.pc = "fetchAndCache"
  /\ IF ok
       THEN /\ cacheFirst' =
                 [cacheFirst EXCEPT
                    !.pc = "returned",
                    !.writes = IF cached THEN @ + 1 ELSE @,
                    !.response = ResponseFrom("network", cacheFirst.request)]
            /\ cacheStore' = IF cached
                               THEN cacheStore \cup {cacheFirst.request}
                               ELSE cacheStore
       ELSE /\ ~cached
            /\ cacheFirst' = [cacheFirst EXCEPT !.pc = "rejected"]
            /\ UNCHANGED cacheStore
  /\ UNCHANGED <<policy, clock, idb, expire, del, fresh, didUpdate,
                 database, handles, calls, cli>>
  /\ UNCHANGED vars

\* The values a match may resolve with for a request.
MatchResults(request) == {NoMatch, NullMatch, ResponseFrom("cache", request)}

NextCacheFirst ==
  \/ \E isFetchEvent \in BOOLEAN, request \in RuntimeUrls :
       Handle(isFetchEvent, request)
  \/ \E cachedResponse \in MatchResults(cacheFirst.request) :
       MatchSettles(cachedResponse)
  \/ MatchRejects
  \/ \E ok \in BOOLEAN, cached \in BOOLEAN : FetchAndCacheSettles(ok, cached)

SpecCacheFirst == Init /\ [][NextCacheFirst]_allVars

(***************************************************************************)
(* The command line.                                                       *)
(***************************************************************************)

\* argv(argv): a command if there is a positional word, the flags
\* otherwise.  A promise that is already settled runs its handler, and the
\* process exits; an exception thrown by the call leaves argv before any
\* handler is attached.
Argv(cliArgs) ==
  /\ cli.pc = "idle"
  /\ \E returned \in {IF Len(cliArgs.positional) > 0
                        THEN HandleCommand(cliArgs.positional[1])
                        ELSE HandleFlag(cliArgs.flags)} :
       cli' = [pc |-> CASE returned.kind = "throws" -> "threw"
                        [] returned.state = "pending" -> "generateSW"
                        [] OTHER -> "exited",
               cliArgs |-> cliArgs,
               command |-> IF Len(cliArgs.positional) > 0 THEN cliArgs.positional[1]
                                                 ELSE "none",
               returned |-> returned,
               exit |-> CASE returned.kind = "throws" -> NoExit
                          [] returned.state = "fulfilled" -> 0
                          [] returned.state = "rejected" -> 1
                          [] OTHER -> NoExit]
  /\ UNCHANGED <<policy, clock, idb, cacheStore, expire, del, fresh,
                 didUpdate, database, handles, calls, cacheFirst>>
  /\ UNCHANGED vars

\* The chain generateSW returns settles, and the process exits.
GenerateSWSettles(ok) ==
  /\ cli.pc = "generateSW"
  /\ cli' = [cli EXCEPT
               !.pc = "exited",
               !.returned = Promise(IF ok THEN "fulfilled" ELSE "rejected"),
               !.exit = IF ok THEN 0 ELSE 1]
  /\ UNCHANGED <<policy, clock, idb, cacheStore, expire, del, fresh,
                 didUpdate, database, handles, calls, cacheFirst>>
  /\ UNCHANGED vars

NextCli ==
  \/ \E cliArgs \in CliArgs : Argv(cliArgs)
  \/ \E ok \in BOOLEAN : GenerateSWSettles(ok)

SpecCli == Init /\ [][NextCli]_allVars

(***************************************************************************)
(* Properties.                                                             *)
(***************************************************************************)
Succeeded == phase \in {"installed", "activating", "activated"}

BlobsUnder(i) == {b \in blobCache : b.key = i}

\* C1: once the install step has reported success, every declared revisioned
\* entry is resolved, its revision record equals its declared revision and a
\* blob is stored under its request.
C1_SuccessMeansAllCommitted ==
  Succeeded =>
    \A e \in ManifestSet :
      /\ pc[e.entryID] = "done"
      /\ revisionStore[e.entryID] = e.revision
      /\ BlobsUnder(e.entryID) # {}

\* A successful pass in which one entry was fetched and committed and the
\* other was found already satisfied.
C1_Witness ==
  /\ phase = "installed"
  /\ ManifestIds = Ids
  /\ fetchCount["/a"] = 1
  /\ fetchCount["/b"] = 0

\* C2: when the previous pass succeeded on the same manifest and nothing was
\* removed from storage since, a pass fetches no revisioned entry.
C2_UnchangedManifestNoFetch ==
  (prev.intact /\ prev.ok /\ prev.manifest = ManifestSet) =>
    \A i \in Ids : fetchCount[i] = 0

\* The second pass over an unchanged two-entry manifest has completed.
C2_Witness ==
  /\ phase = "installed"
  /\ prev.intact /\ prev.ok
  /\ prev.manifest = ManifestSet
  /\ ManifestIds = Ids

\* C3: an entry is taken as satisfied (no fetch) exactly when its record
\* equals its declared revision and a blob is stored for its request.
C3_SatisfiedIffRecordAndBlob ==
  [][\A i \in Ids :
       (pc[i] = "check" /\ pc'[i] \in {"done", "fetch"}) =>
         LET satisfied == /\ revisionStore[i] = EntryOf(i).revision
                          /\ BlobsUnder(i) # {}
         IN /\ (pc'[i] = "done") <=> satisfied
            /\ (fetchCount'[i] = fetchCount[i]) <=> satisfied
            /\ (fetchCount'[i] = fetchCount[i] + 1) <=> ~satisfied]_vars

\* A fetch in flight for an entry whose record matches but whose blob is
\* gone, while the other entry, whose blob is there but whose record is
\* not, is fetched as well.
C3_Witness ==
  /\ ManifestIds = Ids
  /\ pc["/a"] = "fetch"
  /\ revisionStore["/a"] = EntryOf("/a").revision
  /\ BlobsUnder("/a") = {}
  /\ pc["/b"] = "fetch"
  /\ revisionStore["/b"] = None
  /\ BlobsUnder("/b") # {}

\* The previous pass succeeded on the same identifiers, storage is as it
\* left it, and at least one entry's revision has changed since.
RevisionChanged ==
  /\ prev.intact /\ prev.ok
  /\ {e.entryID : e \in prev.manifest} = ManifestIds
  /\ prev.manifest # ManifestSet

\* C4: when only revisions change between two manifests, an entry whose
\* revision did not change is not fetched; an entry whose revision changed is
\* fetched once, and once the pass has succeeded its record is the new
\* revision and one blob, the one fetched for it, is stored under its key.
C4_RevisionChangeRefetchesOnce ==
  RevisionChanged =>
    \A e \in ManifestSet :
      IF e \in prev.manifest
        THEN fetchCount[e.entryID] = 0
        ELSE /\ fetchCount[e.entryID] <= 1
             /\ Succeeded =>
                  /\ fetchCount[e.entryID] = 1
                  /\ revisionStore[e.entryID] = e.revision
                  /\ BlobsUnder(e.entryID) = {Blob(e.entryID, e.revision)}

\* A pass has succeeded in which /a went from r1 to r2 and /b stayed.
C4_Witness ==
  /\ RevisionChanged
  /\ phase = "installed"
  /\ PrecacheEntry("/a", "r1") \in prev.manifest
  /\ ManifestSet = {PrecacheEntry("/a", "r2"), PrecacheEntry("/b", "/b")}
  /\ fetchCount["/a"] = 1

\* C5: a revision record is written only by the commit of an entry that was
\* fetched in this pass and whose response, the one for the revision written,
\* is already in the cache; a fetch or a blob write that fails leaves the
\* revision store as it was.
C5_RecordOnlyAfterFetchAndStore ==
  [][\A i \in Ids :
       /\ (revisionStore'[i] # revisionStore[i] /\ revisionStore'[i] # None) =>
            /\ pc[i] = "commit"
            /\ fetchCount[i] = 1
            /\ BlobsUnder(i) = {Blob(i, revisionStore'[i])}
            /\ revisionStore'[i] = EntryOf(i).revision
       /\ (pc[i] # "failed" /\ pc'[i] = "failed") =>
            revisionStore' = revisionStore]_vars

\* One entry was fetched, stored and committed at r2 while the other failed
\* and has no record.
C5_Witness ==
  /\ ManifestIds = Ids
  /\ pc["/a"] = "done" /\ fetchCount["/a"] = 1
  /\ revisionStore["/a"] = "r2"
  /\ pc["/b"] = "failed"
  /\ revisionStore["/b"] = None

\* The entries whose fetch or store has failed.
FailedEntries == {i \in AllUrls : pc[i] = "failed"}

\* C6: the install never counts as succeeded while an entry of either
\* manager has failed: the install fails at the first failure, with that
\* entry's error, whatever the other entries do before or after.
C6_AnyFailureFailsInstall ==
  /\ [](FailedEntries # {} =>
          /\ phase = "installFailed"
          /\ installError \in FailedEntries)
  /\ [][\A i \in AllUrls :
          (pc[i] # "failed" /\ pc'[i] = "failed") =>
            /\ phase' = "installFailed"
            /\ installError' = IF phase = "installing" THEN i
                               ELSE installError]_vars

\* The unrevisioned entry failed first; one revisioned entry had completed
\* before, the other is still in flight.
C6_Witness ==
  /\ phase = "installFailed"
  /\ installError = "/u"
  /\ pc["/a"] = "done" /\ fetchCount["/a"] = 1
  /\ pc["/b"] \in {"fetch", "put", "commit"}

\* The previous pass failed on this same manifest and storage is as it left
\* it.
Retry == prev.intact /\ ~prev.ok /\ prev.manifest = ManifestSet

\* C7: a failed pass removes or changes no record (only an entry's own
\* commit writes one), and the retry of the same manifest fetches none of the
\* entries the failed pass left committed and every one of the others.
C7_FailedPassKeepsRecords ==
  /\ [][(phase = "installing" \/ phase = "installFailed") =>
          \A i \in Ids :
            revisionStore'[i] # revisionStore[i] =>
              (pc[i] = "commit" /\ revisionStore'[i] = EntryOf(i).revision)
       ]_vars
  /\ [](Retry =>
          \A e \in ManifestSet :
            IF e \in prev.committed
              THEN fetchCount[e.entryID] = 0
              ELSE pc[e.entryID] \notin {"none", "check"} =>
                     fetchCount[e.entryID] = 1)

\* The retry has succeeded: /a, committed by the failed pass, was not fetched
\* again, and /b, which had failed, was.
C7_Witness ==
  /\ Retry
  /\ phase = "installed"
  /\ ManifestIds = Ids
  /\ PrecacheEntry("/a", "r1") \in prev.committed
  /\ fetchCount["/a"] = 0
  /\ fetchCount["/b"] = 1

\* What a caller means by a raw entry: whether it is a URL string or an
\* object, and the identifier and revision it declares.
WellFormed(x) == x.type \in {"string", "object"}

Declares(x) ==
  PrecacheEntry(x.url, IF x.type = "string" THEN x.url ELSE x.revision)

DeclaredBy(files) == {Declares(files[k]) : k \in 1..Len(files)}

\* Two different revisions are declared for one identifier, by the files or
\* by the files and the install list together.
Conflicting(list, files) ==
  \E d \in DeclaredBy(files) :
    \E o \in DeclaredBy(files) \cup {list[k] : k \in 1..Len(list)} :
      o.entryID = d.entryID /\ o.revision # d.revision

AllRawFiles == SeqsUpTo(RawEntries, MaxManifest)

\* C8: a cacheRevisioned call over well-formed entries fails with
\* duplicate-entry-diff-revisions when it declares an identifier with a
\* revision other than the one declared for it, in this call or an earlier
\* one; otherwise it succeeds, and the install list then holds exactly one
\* entry, with the declared revision, for every identifier declared.
C8_ConflictingRevisionFails ==
  [][\A files \in AllRawFiles :
       (CacheRevisioned(files) /\ \A k \in 1..Len(files) : WellFormed(files[k]))
         => IF Conflicting(entriesToCache, files)
              THEN declareResult' = "duplicate-entry-diff-revisions"
              ELSE /\ declareResult' = "ok"
                   /\ \A d \in DeclaredBy(files) :
                        \E k \in 1..Len(entriesToCache') :
                          /\ entriesToCache'[k] = d
                          /\ EntriesWithID(entriesToCache', d.entryID) = {k}
    ]_vars

\* A second call declared another revision for an identifier the first call
\* had declared, and failed; the first declaration stands.
C8_Witness ==
  /\ declareCalls = 2
  /\ declareResult = "duplicate-entry-diff-revisions"
  /\ entriesToCache = <<PrecacheEntry("/a", "r1")>>

\* The first raw entry of the files that is not well-formed, 0 if none.
FirstMalformed(files) ==
  IF \E k \in 1..Len(files) : ~WellFormed(files[k])
    THEN CHOOSE k \in 1..Len(files) :
           /\ ~WellFormed(files[k])
           /\ \A j \in 1..(k - 1) : WellFormed(files[j])
    ELSE 0

\* C9: a cacheRevisioned call given an undefined, null or otherwise shaped
\* raw entry never reports success; it fails with invalid-revisioned-entry,
\* unless an entry before the malformed one had already failed the call as a
\* conflicting duplicate.
C9_MalformedEntryFails ==
  [][\A files \in AllRawFiles :
       (CacheRevisioned(files) /\ FirstMalformed(files) # 0)
         => /\ declareResult' # "ok"
            /\ declareResult' \in {"invalid-revisioned-entry",
                                   "duplicate-entry-diff-revisions"}
            /\ ~Conflicting(entriesToCache,
                            SubSeq(files, 1, FirstMalformed(files) - 1))
                 => declareResult' = "invalid-revisioned-entry"
            /\ Len(entriesToCache') <= Len(entriesToCache) + Len(files) - 1
    ]_vars

\* A call failed with invalid-revisioned-entry.
C9_Witness ==
  /\ declareCalls = 1
  /\ declareResult = "invalid-revisioned-entry"
  /\ entriesToCache = <<PrecacheEntry("/b", "/b")>>

\* C10: during activation the record and the blob of every identifier of the
\* manifest stay as they are and what changes is an identifier outside the
\* manifest losing them; once activation is done, the identifiers with a
\* record and the identifiers with a blob are those of the manifest.
C10_PruneDeletesExactlyOrphans ==
  /\ [][(phase = "installed" \/ phase = "activating") =>
          \A i \in Ids :
            \/ /\ revisionStore'[i] = revisionStore[i]
               /\ BlobsUnder(i)' = BlobsUnder(i)
            \/ /\ i \notin ManifestIds
               /\ i \in RecordedIds
               /\ revisionStore'[i] = None
               /\ BlobsUnder(i)' = {}
       ]_vars
  /\ [](phase = "activated" =>
          /\ {i \in Ids : revisionStore[i] # None} = ManifestIds
          /\ {i \in Ids : BlobsUnder(i) # {}} = ManifestIds)

\* The manifest shrank from /a and /b to /a, and activation has removed /b
\* and left /a as the earlier pass had committed it.
C10_Witness ==
  /\ phase = "activated"
  /\ prev.intact /\ prev.ok
  /\ prev.manifest = {PrecacheEntry("/a", "r1"), PrecacheEntry("/b", "/b")}
  /\ ManifestSet = {PrecacheEntry("/a", "r1")}
  /\ fetchCount["/a"] = 0
  /\ revisionStore = [i \in Ids |-> IF i = "/a" THEN "r1" ELSE None]
  /\ blobCache = {Blob("/a", "r1")}

\* C11: in every install pass each declared unrevisioned entry leaves its check
\* for the network, whether or not a response is stored under it: an entry
\* past its check has been fetched once, and once the install step has
\* reported success the pass has made exactly one fetch per declared
\* unrevisioned entry and stored the fetched response under each.
C11_UnrevisionedAlwaysFetched ==
  /\ [][\A u \in UnrevUrls :
          (pc[u] = "check" /\ pc'[u] # "check" /\ pc'[u] # "none") =>
            /\ pc'[u] = "fetch"
            /\ fetchCount'[u] = fetchCount[u] + 1
       ]_vars
  /\ [](\A u \in unrevEntries :
          pc[u] \in {"fetch", "put", "done", "failed"} => fetchCount[u] = 1)
  /\ [](Succeeded =>
          \A u \in UnrevUrls :
            /\ fetchCount[u] = (IF u \in unrevEntries THEN 1 ELSE 0)
            /\ u \in unrevEntries => Blob(u, "new") \in unrevCache)

\* On the second deployment /u is being fetched although the response the
\* first deployment stored is still in the cache.
C11_Witness ==
  /\ gen = 2
  /\ "/u" \in unrevEntries
  /\ pc["/u"] = "fetch"
  /\ fetchCount["/u"] = 1
  /\ Blob("/u", "old") \in unrevCache

SeqRange(q) == {q[k] : k \in 1..Len(q)}

\* The arguments of the cacheRevisioned calls of a deployment.
AllManifestFiles == SeqsUpTo(ManifestEntries, MaxManifest)

OnlyMaxEntries == Truthy(policy.maxEntries) /\ ~Truthy(policy.maxAgeSeconds)
OnlyMaxAge == Truthy(policy.maxAgeSeconds) /\ ~Truthy(policy.maxEntries)
BothBounds == Truthy(policy.maxEntries) /\ Truthy(policy.maxAgeSeconds)

\* The URLs the last expireEntries call selected.
Selected == SeqRange(expire.urls)

\* The call has returned and each deletion it started has settled, none has
\* failed, and nothing was written since the call began.
Undisturbed ==
  /\ expire.pc = "returned"
  /\ \A u \in RuntimeUrls : del[u] \in {"none", "done"}
  /\ ~expire.writtenSince

\* The steps of an expireEntries call add nothing to either store and remove
\* nothing but what the call selected.
PassTouchesOnlySelected ==
  (del' # del \/ expire'.pc # expire.pc) =>
    /\ cacheStore' \subseteq cacheStore
    /\ idb' \subseteq idb
    /\ (cacheStore \ cacheStore') \cup RecordedUrls(idb \ idb')
         \subseteq Selected

\* Once undisturbed, what was selected is in neither store.
SelectedAreDeleted ==
  Undisturbed =>
    \A u \in Selected : u \notin cacheStore /\ u \notin RecordedUrls(idb)

\* S holds the count - maxEntries records of the store with the smallest
\* timestamps, nothing when the count is within maxEntries.
OldestBeyond(S, store, maxEntries) ==
  /\ S \subseteq store
  /\ Cardinality(S) = (IF Cardinality(store) > maxEntries
                         THEN Cardinality(store) - maxEntries ELSE 0)
  /\ \A r \in S, t \in store \ S : r.timestamp <= t.timestamp

\* The records older than maxAgeSeconds at now.
OlderThan(store, now, maxAgeSeconds) ==
  {r \in store : r.timestamp < now - maxAgeSeconds * 1000}

\* C13: with only maxEntries set, expireEntries selects nothing when the store
\* holds at most maxEntries records and otherwise exactly count - maxEntries
\* records, those with the smallest timestamps; its steps remove nothing else
\* and change no other record; and once its deletions have settled, with no
\* failure and no write in between, the selected URLs are gone.
C13_CountEvictsOldestBeyondMax ==
  /\ [][(OnlyMaxEntries /\ expire.pc = "findExtraEntries"
         /\ expire'.pc = "returned") =>
          /\ OldestBeyond({r \in idb : r.url \in SeqRange(expire'.urls)},
                          idb, policy.maxEntries.value)
          /\ SeqRange(expire'.urls) \subseteq RecordedUrls(idb)
          /\ \A u \in RuntimeUrls :
               del'[u] = (IF u \in SeqRange(expire'.urls)
                            THEN "cacheDelete" ELSE "none")
       ]_allVars
  /\ [][OnlyMaxEntries => PassTouchesOnlySelected]_allVars
  /\ [](OnlyMaxEntries => SelectedAreDeleted)

\* maxEntries is 1; /a, /b and /c were written one second apart, and the call
\* has deleted /a and /b and left /c with its timestamp.
C13_Witness ==
  /\ OnlyMaxEntries
  /\ policy.maxEntries = JsNumber(1)
  /\ Undisturbed
  /\ expire.urls = <<"/a", "/b">>
  /\ idb = {Record("/c", 2000)}
  /\ cacheStore = {"/c"}

\* C14: with only maxAgeSeconds set, expireEntries(now) selects exactly the
\* records whose timestamp is before now - maxAgeSeconds * 1000, so a record
\* of exactly that timestamp or a newer one is kept; its steps remove nothing
\* else; and once its deletions have settled, with no failure and no write in
\* between, the selected URLs are gone.
C14_AgeEvictsStrictlyOlder ==
  /\ [][(OnlyMaxAge /\ expire.pc = "findOldEntries"
         /\ expire'.pc = "returned") =>
          /\ SeqRange(expire'.urls) =
               RecordedUrls(OlderThan(idb, expire.now,
                                      policy.maxAgeSeconds.value))
          /\ \A u \in RuntimeUrls :
               del'[u] = (IF u \in SeqRange(expire'.urls)
                            THEN "cacheDelete" ELSE "none")
       ]_allVars
  /\ [][OnlyMaxAge => PassTouchesOnlySelected]_allVars
  /\ [](OnlyMaxAge => SelectedAreDeleted)

\* maxAgeSeconds is 1 and now is 2000: /a, written at 0, has been deleted and
\* /b, written at 1000, which is exactly now - 1000, is kept.
C14_Witness ==
  /\ OnlyMaxAge
  /\ policy.maxAgeSeconds = JsNumber(1)
  /\ Undisturbed
  /\ expire.now = 2000
  /\ expire.urls = <<"/a">>
  /\ idb = {Record("/b", 1000)}
  /\ cacheStore = {"/b"}

\* C15: with both bounds set, expireEntries selects the records older than
\* maxAgeSeconds together with the oldest records beyond maxEntries, each URL
\* once; and once its deletions have settled, with no failure and no write in
\* between, the store holds at most maxEntries records, none of them older
\* than maxAgeSeconds at the call's now, and the cache holds no selected URL.
C15_BothBoundsEvictUnion ==
  /\ [][(BothBounds /\ expire.pc = "findOldEntries"
         /\ expire'.pc # "findOldEntries") =>
          SeqRange(expire'.oldEntries) =
            RecordedUrls(OlderThan(idb, expire.now,
                                   policy.maxAgeSeconds.value))
       ]_allVars
  /\ [][(BothBounds /\ expire.pc = "findExtraEntries"
         /\ expire'.pc = "returned") =>
          /\ \E S \in SUBSET idb :
               /\ OldestBeyond(S, idb, policy.maxEntries.value)
               /\ SeqRange(expire'.urls) =
                    SeqRange(expire.oldEntries) \cup RecordedUrls(S)
          /\ Len(expire'.urls) = Cardinality(SeqRange(expire'.urls))
          /\ \A u \in RuntimeUrls :
               del'[u] = (IF u \in SeqRange(expire'.urls)
                            THEN "cacheDelete" ELSE "none")
       ]_allVars
  /\ [][BothBounds => PassTouchesOnlySelected]_allVars
  /\ []((BothBounds /\ Undisturbed) =>
          /\ Cardinality(idb) <= policy.maxEntries.value
          /\ OlderThan(idb, expire.now, policy.maxAgeSeconds.value) = {}
          /\ \A u \in Selected :
               u \notin cacheStore /\ u \notin RecordedUrls(idb))

\* maxEntries is 2 and maxAgeSeconds is 1; at now = 2000 /a, written at 0, is
\* too old and is also the one record beyond two: it was selected once and
\* deleted, and /b and /c are kept.
C15_Witness ==
  /\ policy.maxEntries = JsNumber(2)
  /\ policy.maxAgeSeconds = JsNumber(1)
  /\ Undisturbed
  /\ expire.now = 2000
  /\ expire.urls = <<"/a">>
  /\ idb = {Record("/b", 1000), Record("/c", 2000)}
  /\ cacheStore = {"/b", "/c"}

\* C16: whenever expireEntries has returned its list and nothing was written
\* since the call began, every URL of the list is already gone from the
\* cache and from the object store.
C16_ReturnedUrlsAlreadyDeleted ==
  (expire.pc = "returned" /\ ~expire.writtenSince) =>
    \A u \in Selected : u \notin cacheStore /\ u \notin RecordedUrls(idb)

\* C17: expireEntries never returns its list as a success when the deletion
\* of one of its URLs has failed in the cache or in the object store.
C17_FailedDeletionSurfaces ==
  expire.pc = "returned" => \A u \in RuntimeUrls : del[u] # "failed"

\* C18: isResponseFresh answers true whenever the Behavior has no
\* maxAgeSeconds, and also, with maxAgeSeconds set, when there is no cached
\* response, when the response has no Date header, and when its Date header
\* is not a date.
C18_FreshWithoutUsableTimestamp ==
  fresh.called =>
    ((\/ policy.maxAgeSeconds.type = "undefined"
      \/ ~fresh.cachedResponse.present
      \/ fresh.cachedResponse.date.kind \in {"null", "invalid"})
       => fresh.result = TRUE)

\* maxAgeSeconds is 1 and two seconds have passed: a response whose Date
\* header is not a date was found fresh.
C18_Witness ==
  /\ fresh.called
  /\ policy.maxAgeSeconds = JsNumber(1)
  /\ fresh.now = 2000
  /\ fresh.cachedResponse = Response(InvalidDateHeader)
  /\ fresh.result = TRUE

\* C19: with maxAgeSeconds set and a Date header that is a date, the response
\* is fresh exactly when its timestamp plus maxAgeSeconds * 1000 is at least
\* now; a response of exactly that age is fresh.
C19_FreshIffWithinMaxAge ==
  (/\ fresh.called
   /\ Truthy(policy.maxAgeSeconds)
   /\ fresh.cachedResponse.present
   /\ fresh.cachedResponse.date.kind = "date") =>
    (fresh.result <=>
       fresh.cachedResponse.date.seconds * 1000
         + policy.maxAgeSeconds.value * 1000 >= fresh.now)

\* maxAgeSeconds is 1: a response dated 1 s, asked about at 2000, is exactly
\* one second old and was found fresh.
C19_Witness ==
  /\ fresh.called
  /\ policy.maxAgeSeconds = JsNumber(1)
  /\ fresh.cachedResponse = Response(DateHeader(1))
  /\ fresh.now = 2000
  /\ fresh.result = TRUE

\* C20: constructing a Behavior succeeds exactly when at least one bound is
\* given and every bound given is a positive number, and fails with
\* InvalidConfiguration otherwise: when no bound is given, and when a bound
\* given is zero, negative or not a number.
C20_ConstructorRejectsNonPositive ==
  policy.state # "new" =>
    IF PositiveBounds(policy.input)
      THEN policy.state = "constructed"
      ELSE policy.state = "failed" /\ policy.error = "InvalidConfiguration"

\* C21: updateTimestamp is an upsert: after updateTimestamp of a URL at now
\* the object store holds exactly one record for the URL, with timestamp now,
\* whether or not it held one before, and the record of every other URL is as
\* it was.
C21_UpdateTimestampUpserts ==
  [][\A url \in RuntimeUrls :
       UpdateTimestamp(url) =>
         /\ {r \in idb' : r.url = url} = {Record(url, clock)}
         /\ {r \in idb' : r.url # url} = {r \in idb : r.url # url}
    ]_allVars

\* findOldEntries read /a at a timestamp older than a second before 2000, and
\* /a has since been written again: its one record is the new one, and the
\* record of /b is the one written at 0.
C21_Witness ==
  /\ expire.pc = "findExtraEntries"
  /\ expire.now = 2000
  /\ expire.oldEntries = <<"/a", "/b">>
  /\ idb = {Record("/a", 2000), Record("/b", 0)}

(***************************************************************************)
(* C22: a record and its blob are deleted together.                        *)
(***************************************************************************)
\* No write is being recorded and no pass is running or waiting to run.
Quiescent ==
  /\ \A u \in RuntimeUrls : didUpdate.pending[u].pc = "none"
  /\ didUpdate.triggered = << >>
  /\ expire.pc \in {"idle", "returned"}
  /\ ~Deleting

\* C22: in every state in which no write is being recorded and no pass is in
\* progress, a URL written through the policy has a timestamp record exactly
\* when it has a blob in the cache (every storage operation succeeding).
C22_RecordIffBlob ==
  Quiescent =>
    \A u \in RuntimeUrls : u \in RecordedUrls(idb) <=> u \in cacheStore

(***************************************************************************)
(* C23: a pass against writes that interleave with it.                     *)
(***************************************************************************)
\* The record satisfies a criterion of the policy in the store as it is:
\* older than maxAgeSeconds at the pass's now, or among the oldest records
\* beyond maxEntries.
SatisfiesCriterion(r) ==
  \/ /\ Truthy(policy.maxAgeSeconds)
     /\ r \in OlderThan(idb, expire.now, policy.maxAgeSeconds.value)
  \/ /\ Truthy(policy.maxEntries)
     /\ \E S \in SUBSET idb :
          r \in S /\ OldestBeyond(S, idb, policy.maxEntries.value)

\* C23: when a write has interleaved with a pass, the pass deletes no record
\* that, as it stands when its deletion runs, satisfies neither criterion.
C23_NoFreshRecordDeleted ==
  [][\A url \in RuntimeUrls :
       (expire.writtenSince /\ StoreDeleteSettles(url, TRUE)) =>
         \A r \in idb \ idb' : SatisfiesCriterion(r)
    ]_allVars

(***************************************************************************)
(* C24: cacheDidUpdate records the write, then trims.                      *)
(***************************************************************************)
\* The records are within the bounds that are set, age being measured at the
\* now of the last pass.
Trimmed ==
  /\ Truthy(policy.maxEntries) =>
       Cardinality(idb) <= policy.maxEntries.value
  /\ Truthy(policy.maxAgeSeconds) =>
       OlderThan(idb, expire.now, policy.maxAgeSeconds.value) = {}

RevisionStoreStep ==
  \E i \in Ids : CheckEntry(i) \/ CommitEntry(i)

\* C26: once the install phase has closed the handle because it failed, no
\* entry of that pass reads or commits a revision record.
C26_NoStoreUseAfterClose ==
  [][phase = "installFailed" => ~RevisionStoreStep]_vars

(***************************************************************************)
(* C27: the entries' sequences do not depend on each other.                *)
(***************************************************************************)
\* C27: during a pass, a step leaves the record and the blob of every
\* identifier whose own sequence it does not advance as they are, and what a
\* sequence writes is its entry's declared revision and a blob of it; so once
\* the pass has succeeded, in whatever order the sequences ran, each entry's
\* record is its declared revision and the blob of each fetched entry is the
\* one fetched for that revision.
C27_SequencesIndependent ==
  /\ [][(phase = "installing" \/ phase = "installFailed") =>
          \A i \in Ids :
            /\ pc'[i] = pc[i] =>
                 /\ revisionStore'[i] = revisionStore[i]
                 /\ BlobsUnder(i)' = BlobsUnder(i)
            /\ (i \in ManifestIds /\ revisionStore'[i] # revisionStore[i]) =>
                 revisionStore'[i] = EntryOf(i).revision
            /\ (i \in ManifestIds /\ BlobsUnder(i)' # BlobsUnder(i)) =>
                 BlobsUnder(i)' = {Blob(i, EntryOf(i).revision)}
       ]_vars
  /\ [](Succeeded =>
          \A e \in ManifestSet :
            /\ revisionStore[e.entryID] = e.revision
            /\ fetchCount[e.entryID] > 0 =>
                 BlobsUnder(e.entryID) = {Blob(e.entryID, e.revision)})

\* Both entries of the manifest were fetched and committed, on a storage in
\* which neither was satisfied, and the pass has succeeded.
C27_Witness ==
  /\ phase = "installed"
  /\ ManifestIds = Ids
  /\ fetchCount["/a"] = 1
  /\ fetchCount["/b"] = 1
  /\ \A i \in Ids : revisionStore[i] = EntryOf(i).revision

(***************************************************************************)
(* C28, C29: the handles of one Behavior.                                  *)
(***************************************************************************)
\* The call has its handle.
Returned(c) == calls[c].pc \in {"transaction", "done", "failed"}

\* C28: for each cache name the database is opened at most once and the
\* cache is opened at most once, however the calls overlap, and all calls of
\* getDB for the name return one handle, as do all calls of getCache.
C28_HandleMemoized ==
  \A kind \in {"db", "cache"}, name \in CacheNames :
    /\ handles.opens[kind][name] <= 1
    /\ \A c1, c2 \in Calls :
         (/\ Returned(c1) /\ Returned(c2)
          /\ KindOf(calls[c1].op) = kind /\ KindOf(calls[c2].op) = kind
          /\ calls[c1].cacheName = name /\ calls[c2].cacheName = name) =>
           calls[c1].handle = calls[c2].handle

\* C29: with two cache names in use, no updateTimestamp fails, whichever name
\* was used first, and a write under one name leaves the records of the other
\* as they are.
C29_NamesIndependent ==
  /\ [](\A c \in Calls : calls[c].pc # "failed")
  /\ [][\A c \in Calls, url \in RuntimeUrls :
          TransactionSettles(c, url) =>
            \A name \in CacheNames \ {calls[c].cacheName} :
              database'.records[name] = database.records[name]
       ]_allVars

(***************************************************************************)
(* C30: the two uses of maxAgeSeconds.                                     *)
(***************************************************************************)
\* What expireEntries at now selects from the store by age: the result of
\* findOldEntries when maxAgeSeconds is set, nothing otherwise.
AgeEvictionSet(store, now) ==
  IF Truthy(policy.maxAgeSeconds)
    THEN SeqRange(FindOldEntries(store, now, policy.maxAgeSeconds.value))
    ELSE {}

\* C30: for the policy's maxAgeSeconds, a response dated at a timestamp is
\* found not fresh at now exactly when a record with that timestamp is in
\* the age-based eviction set of a pass at the same now.
C30_AgeCriteriaAgree ==
  (/\ fresh.called
   /\ fresh.cachedResponse.present
   /\ fresh.cachedResponse.date.kind = "date") =>
    \A u \in RuntimeUrls :
      ~fresh.result <=>
        u \in AgeEvictionSet(
                {Record(u, fresh.cachedResponse.date.seconds * MsPerSecond)},
                fresh.now)

\* maxAgeSeconds is 1: a response dated 0 was found stale at 2000, and a
\* record written at 0 is what a pass at 2000 selects.
C30_Witness ==
  /\ fresh.called
  /\ policy.maxAgeSeconds = JsNumber(1)
  /\ fresh.cachedResponse = Response(DateHeader(0))
  /\ fresh.now = 2000
  /\ fresh.result = FALSE
  /\ AgeEvictionSet({Record("/a", 0)}, fresh.now) = {"/a"}

(***************************************************************************)
(* C31: the pass a write triggers, against the URL just written.           *)
(***************************************************************************)
\* C31: with maxEntries set and no age bound, the pass that cacheDidUpdate
\* triggers for a write never selects the URL of that write for deletion,
\* whatever timestamps the other records carry.
C31_WrittenUrlSurvivesItsPass ==
  [][(OnlyMaxEntries /\ expire.pc = "findExtraEntries"
      /\ expire'.pc = "returned") =>
       didUpdate.running.url \notin SeqRange(expire'.urls)
    ]_allVars

(***************************************************************************)
(* C32: cacheWillMatch.                                                    *)
(***************************************************************************)
\* C32: cacheWillMatch returns the response it was handed, as it is, when
\* isResponseFresh answers true for it, and null when it answers false.
C32_WillMatchFollowsFreshness ==
  fresh.willMatch.returned =>
    IF fresh.result
      THEN fresh.willMatch = ReturnResponse(fresh.cachedResponse)
      ELSE fresh.willMatch = ReturnNull

\* maxAgeSeconds is 1: a response dated 0, matched at 2000, is stale and
\* null came back.
C32_Witness ==
  /\ fresh.willMatch = ReturnNull
  /\ policy.maxAgeSeconds = JsNumber(1)
  /\ fresh.cachedResponse = Response(DateHeader(0))
  /\ fresh.now = 2000
  /\ ~fresh.result


\* C33: the cache-first handler calls fetchAndCache exactly when its match
\* resolved with no response; when the match resolved with a response, the
\* handler returns that response, fetches nothing and writes nothing to the
\* cache.
C33_FetchIffNoMatch ==
  /\ cacheFirst.fetches > 0 => ~TruthyResponse(cacheFirst.cachedResponse)
  /\ (/\ cacheFirst.pc \in {"returned", "fetchAndCache"}
      /\ ~TruthyResponse(cacheFirst.cachedResponse))
       => cacheFirst.fetches = 1
  /\ TruthyResponse(cacheFirst.cachedResponse) =>
       /\ cacheFirst.pc = "returned"
       /\ cacheFirst.response = cacheFirst.cachedResponse
       /\ cacheFirst.fetches = 0
       /\ cacheFirst.writes = 0

\* A second request for a URL that the first one fetched and cached is
\* answered with the matched response.
C33_Witness ==
  /\ cacheFirst.handled = 2
  /\ cacheFirst.pc = "returned"
  /\ cacheFirst.request = "/a"
  /\ cacheFirst.request \in cacheStore
  /\ cacheFirst.cachedResponse = ResponseFrom("cache", "/a")
  /\ cacheFirst.response = cacheFirst.cachedResponse

\* C34: handleCommand returns a promise for every command name, the task's
\* promise for the two commands and a rejected one otherwise, so that argv
\* ends in process.exit(0) when it fulfils and process.exit(1) when it
\* rejects.
C34_EveryCommandGivesPromise ==
  cli.command # "none" =>
    /\ cli.returned.kind = "promise"
    /\ cli.pc \in {"generateSW", "exited"}
    /\ cli.command \notin {"generate-sw", "build-file-manifest"} =>
         cli.returned.state = "rejected"
    /\ cli.pc = "exited" =>
         /\ cli.returned.state = "fulfilled" => cli.exit = 0
         /\ cli.returned.state = "rejected" => cli.exit = 1

====
